---- MODULE Spec2Model ----
(***************************************************************************)
(* A model of src/src/Statement.ts: the glob Matcher (brace expansion and  *)
(* wildcard compilation), the template interpolator (applyContext and      *)
(* getValueFromPath) and Statement.matches.                                *)
(*                                                                         *)
(* A JavaScript string is a sequence of one-character strings, so that     *)
(* "a/*" is << "a", "/", "*" >>.  Every string operation of the source is   *)
(* computed on these sequences the way the source computes it.             *)
(***************************************************************************)
EXTENDS Integers, Sequences, FiniteSets

VARIABLES
  pc,                   \* position of the caller: which call comes next
  arg,                  \* the string last given to new Matcher(...)
  pattern,              \* Matcher.pattern
  empty,                \* Matcher.empty
  set,                  \* Matcher.set
  hasSpecialCharacter,  \* Matcher.hasSpecialCharacter
  str,                  \* the candidate last given to Matcher.match
  result,               \* what the last call returned or threw
  stmt,                 \* the Statement: its action, resource and condition
  req,                  \* the arguments of Statement.matches
  data,                 \* getValueFromPath / applyContext: the context
  path,                 \* getValueFromPath: the path; applyContext: the template
  value,                \* what getValueFromPath / applyContext returned
  shape                 \* the pieces a brace pattern given to new Matcher was built from

vars == << pc, arg, pattern, empty, set, hasSpecialCharacter, str, result,
           stmt, req, data, path, value, shape >>

matcherVars == << arg, pattern, empty, set, hasSpecialCharacter, str, result, shape >>
statementVars == << stmt, req >>
contextVars == << data, path, value >>

----------------------------------------------------------------------------
(* Strings *)

\* ECMAScript WhiteSpace and LineTerminator characters of the model's alphabet
\* (what \s and String.prototype.trim strip), and the LineTerminators among
\* them (what "." in a regular expression does not match).
WhiteSpace == {" ", "\n"}
LineTerminators == {"\n"}
\* \w of a regular expression, within the model's alphabet.
WordChars == {"a", "b", "c", "d", "e", "f", "i", "j", "n", "o", "r", "t", "u", "x", "O"}

Min(S) == CHOOSE x \in S : \A y \in S : x <= y
Max(S) == CHOOSE x \in S : \A y \in S : x >= y

\* s.slice(from) with a 1-based index.
Slice(s, from) == SubSeq(s, from, Len(s))

\* str.indexOf(c, from) with 1-based indexes; 0 when c is not found.
IndexOf(s, c, from) ==
  LET hits == {i \in 1..Len(s) : i >= from /\ s[i] = c}
  IN IF hits = {} THEN 0 ELSE Min(hits)

\* String.prototype.trim
Trim(s) ==
  LET keep == {i \in 1..Len(s) : s[i] \notin WhiteSpace}
  IN IF keep = {} THEN << >> ELSE SubSeq(s, Min(keep), Max(keep))

\* The strings over an alphabet, up to a length.
RECURSIVE Strs(_, _)
Strs(A, n) ==
  IF n = 0 THEN {<< >>}
  ELSE LET shorter == Strs(A, n - 1)
       IN shorter \cup {Append(s, c) : s \in {t \in shorter : Len(t) = n - 1}, c \in A}

\* Concatenation of a sequence of strings.
RECURSIVE Concat(_)
Concat(ss) == IF ss = << >> THEN << >> ELSE Head(ss) \o Concat(Slice(ss, 2))

\* Array.prototype.join(sep) of a sequence of strings.
RECURSIVE Join(_, _)
Join(ss, sep) ==
  IF ss = << >> THEN << >>
  ELSE IF Len(ss) = 1 THEN ss[1]
  ELSE ss[1] \o sep \o Join(Slice(ss, 2), sep)

\* String.prototype.split(c) for a one-character separator.
RECURSIVE Split(_, _)
Split(s, c) ==
  LET i == IndexOf(s, c, 1)
  IN IF i = 0 THEN << s >>
     ELSE << SubSeq(s, 1, i - 1) >> \o Split(Slice(s, i + 1), c)

----------------------------------------------------------------------------
(* Regular expressions.                                                    *)
(*                                                                         *)
(* Matcher.parse builds the source text of a regular expression and hands  *)
(* it to new RegExp.  The model builds the same text and reads it by the   *)
(* ECMAScript grammar (non-unicode mode, Annex B) for the characters the   *)
(* model's alphabet and parse's own text can put there:                    *)
(*   ^ $         assertions                                                *)
(*   .           any character but a line terminator                       *)
(*   \b          word-boundary assertion;  \X  the character X             *)
(*   [^...]      negated class                                             *)
(*   (?=.)       the lookahead parse prepends; any other ( has no ) to     *)
(*               close it (no pattern character is ")") : a SyntaxError    *)
(*   * and *?    quantifier of the atom before it                          *)
(*   { } , ] / letters, white space: themselves (no digit is in the        *)
(*               alphabet, so { never opens a braced quantifier)           *)
(* A node is [t, cs, q]: t the kind, cs the characters of a literal or of  *)
(* a negated class, q "*" when the atom is starred.                        *)
(***************************************************************************)

Node(t, cs, q) == [t |-> t, cs |-> cs, q |-> q]
SyntaxError == << Node("SyntaxError", {}, "1") >>
Lookahead == << "(", "?", "=", ".", ")" >>

\* The atom or assertion that starts at src[i]: [n |-> its node, next |-> the
\* index after it], a node of kind "SyntaxError" when there is none.
AtomAt(src, i) ==
  LET c == src[i]
      bad == [n |-> Node("SyntaxError", {}, "1"), next |-> Len(src) + 1]
  IN CASE c = "^" -> [n |-> Node("bol", {}, "1"), next |-> i + 1]
       [] c = "$" -> [n |-> Node("eol", {}, "1"), next |-> i + 1]
       [] c = "." -> [n |-> Node("any", {}, "1"), next |-> i + 1]
       [] c = "\\" ->
            IF i + 1 > Len(src) THEN bad
            ELSE IF src[i + 1] = "b"
                 THEN [n |-> Node("wordBoundary", {}, "1"), next |-> i + 2]
                 ELSE [n |-> Node("lit", {src[i + 1]}, "1"), next |-> i + 2]
       [] c = "[" ->
            LET close == IndexOf(src, "]", i + 1)
            IN IF close = 0 THEN bad
               ELSE IF i + 1 < close /\ src[i + 1] = "^"
                    THEN [n |-> Node("not", {src[k] : k \in (i + 2)..(close - 1)}, "1"),
                          next |-> close + 1]
                    ELSE [n |-> Node("lit", {src[k] : k \in (i + 1)..(close - 1)}, "1"),
                          next |-> close + 1]
       [] c = "(" ->
            IF i + 4 <= Len(src) /\ SubSeq(src, i, i + 4) = Lookahead
            THEN [n |-> Node("lookahead", {}, "1"), next |-> i + 5]
            ELSE bad
       [] c \in {"*", "?", ")"} -> bad
       [] OTHER -> [n |-> Node("lit", {c}, "1"), next |-> i + 1]

\* The atom a with the quantifier that follows it in src: "*" or "*?".  An
\* assertion cannot be repeated.
Quantified(src, a) ==
  LET starred == a.next <= Len(src) /\ src[a.next] = "*"
      lazy == starred /\ a.next + 1 <= Len(src) /\ src[a.next + 1] = "?"
  IN IF a.n.t = "SyntaxError" \/ ~starred THEN a
     ELSE IF a.n.t \in {"bol", "eol", "wordBoundary"}
          THEN [n |-> Node("SyntaxError", {}, "1"), next |-> Len(src) + 1]
          ELSE [n |-> Node(a.n.t, a.n.cs, "*"),
                next |-> IF lazy THEN a.next + 2 ELSE a.next + 1]

\* The term that starts at src[i]: the atom and the quantifier after it.
TermAt(src, i) == Quantified(src, AtomAt(src, i))

\* A node before the nodes of the rest of the source.
Prepend(n, rest) == IF rest = SyntaxError THEN SyntaxError ELSE << n >> \o rest

\* new RegExp(src), read from src[i] on: the sequence of its terms, or
\* SyntaxError.
RECURSIVE ParseRegExp(_, _)
RECURSIVE ParseAfter(_, _)
ParseAfter(src, term) ==
  IF term.n.t = "SyntaxError" THEN SyntaxError
  ELSE Prepend(term.n, ParseRegExp(src, term.next))

ParseRegExp(src, i) ==
  IF i > Len(src) THEN << >> ELSE ParseAfter(src, TermAt(src, i))

\* Whether a consuming atom accepts a character.
Accepts(n, c) ==
  CASE n.t = "lit" -> c \in n.cs
    [] n.t = "not" -> c \notin n.cs
    [] n.t = "any" -> c \notin LineTerminators
    [] OTHER -> FALSE

\* Whether nodes[k..] match s from its j-th character on (backtracking).
RECURSIVE MatchFrom(_, _, _, _)
MatchFrom(nodes, k, s, j) ==
  IF k > Len(nodes) THEN TRUE
  ELSE LET n == nodes[k] IN
    CASE n.t = "bol" -> j = 1 /\ MatchFrom(nodes, k + 1, s, j)
      [] n.t = "eol" -> j = Len(s) + 1 /\ MatchFrom(nodes, k + 1, s, j)
      [] n.t = "wordBoundary" ->
           /\ (j > 1 /\ s[j - 1] \in WordChars) # (j <= Len(s) /\ s[j] \in WordChars)
           /\ MatchFrom(nodes, k + 1, s, j)
      [] n.t = "lookahead" ->
           /\ IF n.q = "*" THEN TRUE ELSE j <= Len(s) /\ s[j] \notin LineTerminators
           /\ MatchFrom(nodes, k + 1, s, j)
      [] OTHER ->
           IF n.q = "*"
           THEN \/ MatchFrom(nodes, k + 1, s, j)
                \/ j <= Len(s) /\ Accepts(n, s[j]) /\ MatchFrom(nodes, k, s, j + 1)
           ELSE j <= Len(s) /\ Accepts(n, s[j]) /\ MatchFrom(nodes, k + 1, s, j + 1)

\* Whether the nodes match s, from anywhere in s.
MatchAnywhere(nodes, s) == \E j \in 1..(Len(s) + 1) : MatchFrom(nodes, 1, s, j)

\* Boolean(s.match(new RegExp(src)))
RegExpTest(src, s) == MatchAnywhere(ParseRegExp(src, 1), s)

----------------------------------------------------------------------------
(* Matcher *)

\* parse rejects an alternative longer than 1024 * 64 characters; the model
\* scales the limit down so that short strings reach it.
PatternLengthLimit == 8

\* A compiled alternative: a string, a RegExp (val is its source text), or
\* the TypeError parse threw.
Compiled(kind, val) == [kind |-> kind, val |-> val]

\* Indexes are 1-based in the model and 0 stands for "not found", where the
\* source has 0-based indexes and -1.
\* The [left, right] range returns, given left.
RangeFrom(left, right) ==
  IF left >= 1 /\ right >= 1 THEN << left, right >> ELSE << 0, 0 >>

range(a, b, s) == RangeFrom(IndexOf(s, a, 1), IndexOf(s, b, IndexOf(s, a, 1) + 1))

\* The Balance record balanced returns, given the range r.
Balance(s, r) ==
  [start |-> r[1],
   end   |-> r[2],
   pre   |-> IF r[1] >= 1 THEN SubSeq(s, 1, r[1] - 1) ELSE << >>,
   body  |-> IF r[1] >= 1 THEN SubSeq(s, r[1] + 1, r[2] - 1) ELSE << >>,
   post  |-> IF r[1] >= 1 THEN Slice(s, r[2] + 1) ELSE << >>]

balanced(a, b, s) == Balance(s, range(a, b, s))

\* Expansions with the inner forEach lost: every part meets the first
\* postPart only.
Expansions_FirstPostPartOnly(isTop, pre, parts, postParts) ==
  LET all == [k \in 1..Len(parts) |-> pre \o parts[k] \o postParts[1]]
  IN IF isTop THEN SelectSeq(all, LAMBDA e : e # << >>) ELSE all

\* The two nested forEach of expand, lines 181-186: pre + part + postPart for
\* every part and every postPart, in that order; at the top level an empty
\* expansion is not pushed.
Expansions(isTop, pre, parts, postParts) ==
  LET n == Len(postParts)
      all == [k \in 1..(Len(parts) * n) |->
                pre \o parts[((k - 1) \div n) + 1] \o postParts[((k - 1) % n) + 1]]
  IN IF isTop THEN SelectSeq(all, LAMBDA e : e # << >>) ELSE all

\* Matcher.expand; ExpandBalance is its body once balanced has returned.
RECURSIVE expand(_, _)
RECURSIVE ExpandBalance(_, _, _)
ExpandBalance(s, isTop, balance) ==
  IF balance.start < 1 \/ (balance.pre # << >> /\ balance.pre[Len(balance.pre)] = "$")
  THEN << s >>
  ELSE Expansions(isTop, balance.pre,
                  IF balance.body = << >> THEN << << >> >>
                  ELSE Split(balance.body, ","),
                  IF Len(balance.post) > 0 THEN expand(balance.post, FALSE)
                  ELSE << << >> >>)

expand(s, isTop) == ExpandBalance(s, isTop, balanced("{", "}", s))

\* pattern.match(/{.*}/): a "{" and a later "}" with no line terminator between.
HasBraceSet(p) ==
  \E i \in 1..Len(p), j \in 1..Len(p) :
    /\ i < j /\ p[i] = "{" /\ p[j] = "}"
    /\ \A k \in (i + 1)..(j - 1) : p[k] \notin LineTerminators

\* Matcher.braceExpand, of this.pattern = p
braceExpand(p) ==
  IF ~HasBraceSet(p) THEN << p >>
  ELSE IF Len(p) >= 2 /\ SubSeq(p, 1, 2) = << "{", "}" >>
       THEN expand(<< "\\", "{", "\\", "}" >> \o Slice(p, 3), TRUE)
       ELSE expand(p, TRUE)

\* The loop of parse: "*" becomes [^/]*? and every other character is copied.
RECURSIVE Translate(_)
Translate(p) ==
  IF p = << >> THEN << >>
  ELSE (IF p[1] = "*" THEN << "[", "^", "/", "]", "*", "?" >> ELSE << p[1] >>)
       \o Translate(Slice(p, 2))

\* pattern.replace(/\\(.)/g, '$1')
RECURSIVE Unescape(_)
Unescape(p) ==
  IF p = << >> THEN << >>
  ELSE IF p[1] = "\\" /\ Len(p) >= 2 /\ p[2] \notin LineTerminators
       THEN << p[2] >> \o Unescape(Slice(p, 3))
       ELSE << p[1] >> \o Unescape(Slice(p, 2))

\* Lines 141-146: the guard against an empty path part goes before re when
\* the flag is set.
Guarded(re, special) ==
  IF re # << >> /\ special THEN Lookahead \o re ELSE re

\* Lines 155-163: new RegExp('^' + re + '$'), or the RegExp of source "$."
\* when the text is no regular expression.
NewRegExp(src) ==
  IF ParseRegExp(src, 1) = SyntaxError THEN Compiled("RegExp", << "$", "." >>)
  ELSE Compiled("RegExp", src)

\* Lines 128-164 of parse, for a non-empty alternative p, with special the
\* value of this.hasSpecialCharacter after the loop.
Compile(p, special) ==
  IF ~special THEN [out |-> Compiled("string", Unescape(p)), hsc |-> special]
  ELSE [out |-> NewRegExp(<< "^" >> \o Guarded(Translate(p), special) \o << "$" >>),
        hsc |-> special]

\* parse without the length guard of lines 121-123.
parse_NoLengthGuard(p, hsc) ==
  IF p = << >> THEN [out |-> Compiled("string", << >>), hsc |-> hsc]
  ELSE Compile(p, hsc \/ (\E i \in 1..Len(p) : p[i] = "*"))

\* Matcher.parse of one alternative p, with this.hasSpecialCharacter = hsc
\* on entry: [out |-> what it returns or throws, hsc |-> the flag on exit].
\* The loop sets the flag at a "*" and nothing ever clears it.
parse(p, hsc) ==
  IF Len(p) > PatternLengthLimit
  THEN [out |-> Compiled("TypeError", << >>), hsc |-> hsc]
  ELSE IF p = << >> THEN [out |-> Compiled("string", << >>), hsc |-> hsc]
  ELSE Compile(p, hsc \/ (\E i \in 1..Len(p) : p[i] = "*"))

\* The results of parsing first and then the rest.
Collected(first, rest) ==
  [set |-> << first.out >> \o rest.set, hsc |-> rest.hsc, thrown |-> rest.thrown]

\* set.map(val => this.parse(val)): the alternatives are parsed in order and
\* the flag one parse leaves is the flag the next one finds.  A throw ends
\* the constructor.
RECURSIVE ParseEach(_, _)
RECURSIVE ParseRest(_, _)
ParseRest(alts, first) ==
  IF first.out.kind = "TypeError"
  THEN [set |-> << >>, hsc |-> first.hsc, thrown |-> TRUE]
  ELSE Collected(first, ParseEach(Slice(alts, 2), first.hsc))

ParseEach(alts, hsc) ==
  IF alts = << >> THEN [set |-> << >>, hsc |-> hsc, thrown |-> FALSE]
  ELSE ParseRest(alts, parse(alts[1], hsc))

\* The fields of the Matcher of the trimmed pattern p once every alternative
\* is parsed: the filter of lines 97-99 drops the empty strings.
MatcherFields(p, parsed) ==
  [pattern |-> p,
   empty |-> (p = << >>),
   set |-> IF parsed.thrown THEN << >>
           ELSE SelectSeq(parsed.set, LAMBDA s : s.kind = "RegExp" \/ s.val # << >>),
   hasSpecialCharacter |-> parsed.hsc,
   thrown |-> parsed.thrown]

\* The constructor after this.pattern = pattern.trim().
Compiling(p) == MatcherFields(p, ParseEach(braceExpand(p), FALSE))

\* new Matcher(a): the fields of the object, or thrown when parse threw.
Matcher(a) == Compiling(Trim(a))

\* matchOne with a string alternative compared as a prefix of the candidate.
matchOne_Prefix(s, c) ==
  IF c.kind = "string" /\ c.val = << >> THEN FALSE
  ELSE IF c.kind = "string"
       THEN Len(s) >= Len(c.val) /\ SubSeq(s, 1, Len(c.val)) = c.val
  ELSE RegExpTest(c.val, s)

\* Matcher.matchOne
matchOne(s, c) ==
  IF c.kind = "string" /\ c.val = << >> THEN FALSE
  ELSE IF c.kind = "string" THEN s = c.val
  ELSE RegExpTest(c.val, s)

\* Matcher.match, on the Matcher m
match(m, s) ==
  IF m.empty THEN s = << >>
  ELSE \E k \in 1..Len(m.set) : matchOne(s, m.set[k])

----------------------------------------------------------------------------
(* Context values, getValueFromPath and applyContext.                      *)
(*                                                                         *)
(* A JavaScript value is undefined, a string, an object (a function from   *)
(* its own keys to values) or an array of strings.                         *)

Undefined == [t |-> "undefined"]
StringValue(s) == [t |-> "string", s |-> s]
ObjectValue(m) == [t |-> "object", m |-> m]
ArrayValue(a) == [t |-> "array", a |-> a]

\* Whether a value is truthy, as "!context" and "data[key] ? ... : ..." test it.
Truthy(v) ==
  CASE v.t = "undefined" -> FALSE
    [] v.t = "string" -> v.s # << >>
    [] OTHER -> TRUE

\* String(v); also the property key a value turns into.
StringOf(v) ==
  CASE v.t = "undefined" -> << "u", "n", "d", "e", "f", "i", "n", "e", "d" >>
    [] v.t = "string" -> v.s
    [] v.t = "array" -> Join(v.a, << "," >>)
    [] OTHER -> << "[", "o", "b", "j", "e", "c", "t", " ",
                   "O", "b", "j", "e", "c", "t", "]" >>

\* v[k] for a value v that is not undefined: an own key of an object; a
\* string or an array has none of the model's keys.
Get(v, k) ==
  IF v.t = "object" /\ k \in DOMAIN v.m THEN v.m[k] ELSE Undefined

\* The callback of the reduce, lines 37-39.
Child(d, key, nextChild) ==
  IF Truthy(Get(d, StringOf(key))) THEN Get(Get(d, StringOf(key)), nextChild)
  ELSE Undefined

\* keys.reduce(callback) continued from the accumulator acc.
RECURSIVE Reduce(_, _, _)
Reduce(d, acc, keys) ==
  IF keys = << >> THEN acc
  ELSE Reduce(d, Child(d, acc, keys[1]), Slice(keys, 2))

\* getValueFromPath(data, path).  reduce is given no initial value, so the
\* accumulator starts as the first key itself.
\* Lines 41-43: an array is returned as the string `{${value}}`.
Returned(v) ==
  IF v.t = "array" THEN StringValue(<< "{" >> \o StringOf(v) \o << "}" >>)
  ELSE v

\* path.split('.').reduce(callback) over the keys.
ReduceKeys(d, keys) == Reduce(d, StringValue(keys[1]), Slice(keys, 2))

getValueFromPath(d, p) == Returned(ReduceKeys(d, Split(p, ".")))

\* The number of characters of W that s holds from index i on, in a row.
RECURSIVE RunLength(_, _, _)
RunLength(s, i, W) ==
  IF i > Len(s) \/ s[i] \notin W THEN 0 ELSE 1 + RunLength(s, i + 1, W)

\* specialTrim: str.replace(/ +(?= )|^\s+|\s+$/g, '') scanned from index i.
\* At each index the alternatives are tried in order: a run of spaces short
\* of its last one, white space at the very start, white space up to the end.
RECURSIVE TrimFrom(_, _)
TrimFrom(s, i) ==
  IF i > Len(s) THEN << >>
  ELSE LET spaces == RunLength(s, i, {" "})
           white == RunLength(s, i, WhiteSpace)
           cut == IF spaces >= 2 THEN spaces - 1
                  ELSE IF i = 1 /\ white >= 1 THEN white
                  ELSE IF white >= 1 /\ i + white = Len(s) + 1 THEN white
                  ELSE 0
       IN IF cut > 0 THEN TrimFrom(s, i + cut)
          ELSE << s[i] >> \o TrimFrom(s, i + 1)

\* specialTrim with every space removed, as / +/g would.
specialTrim_EverySpace(s) == SelectSeq(TrimFrom(s, 1), LAMBDA c : c # " ")

specialTrim(s) == TrimFrom(s, 1)

\* str.replace(reDelimiters, ...) scanned from index i: every "${...}" up to
\* the nearest "}" becomes String(getValueFromPath(context, path)).
RECURSIVE Interpolate(_, _, _)
Interpolate(s, i, context) ==
  IF i > Len(s) THEN << >>
  ELSE LET close == IF s[i] = "$" /\ i + 1 <= Len(s) /\ s[i + 1] = "{"
                    THEN IndexOf(s, "}", i + 2) ELSE 0
       IN IF close > 0
          THEN StringOf(getValueFromPath(context, SubSeq(s, i + 2, close - 1)))
               \o Interpolate(s, close + 1, context)
          ELSE << s[i] >> \o Interpolate(s, i + 1, context)

\* applyContext(str, context)
applyContext(s, context) ==
  IF ~Truthy(context) THEN s
  ELSE specialTrim(Interpolate(s, 1, context))

----------------------------------------------------------------------------
(* Statement *)

\* What a call that does not return a boolean ends with: the TypeError parse
\* throws, and the TypeError of calling a resolver that is not in the table.
TooLong == "TypeError: pattern is too long"
NotAFunction == "TypeError: conditionResolvers[condition] is not a function"

\* The constructor, lines 216-226: a string becomes a one-element list and
\* the effect defaults to allow.  A config field is a string or an array
\* value; config.effect and config.condition may be Undefined.
Statement(config) ==
  [effect |-> IF config.effect = Undefined THEN StringValue(<< "a", "l", "l", "o", "w" >>)
              ELSE config.effect,
   resource |-> IF config.resource.t = "string" THEN << config.resource.s >>
                ELSE config.resource.a,
   action |-> IF config.action.t = "string" THEN << config.action.s >>
              ELSE config.action.a,
   condition |-> config.condition]

\* The resolvers of the model: equals is (a, b) => a === b and notEquals is
\* (a, b) => a !== b, on an observed value and an expected string.
Resolve(name, observed, expected) ==
  IF name = "equals" THEN observed = StringValue(expected)
  ELSE observed # StringValue(expected)

\* patterns.some(p => new Matcher(applyContext(p, context)).match(s)), from
\* the i-th pattern on: "true", "false", or TooLong as soon as a constructor
\* throws.  A pattern after the first match is never compiled.
RECURSIVE some(_, _, _, _)
RECURSIVE SomeAfter(_, _, _, _, _)
SomeAfter(patterns, i, s, context, m) ==
  IF m.thrown THEN TooLong
  ELSE IF match(m, s) THEN "true"
  ELSE some(patterns, i + 1, s, context)

some(patterns, i, s, context) ==
  IF i > Len(patterns) THEN "false"
  ELSE SomeAfter(patterns, i, s, context, Matcher(applyContext(patterns[i], context)))

\* The two nested every of lines 242-251 over the condition map, whose
\* entries [c |-> condition name, p |-> path, e |-> expected value] are in
\* Object.keys order, from the i-th entry on.
RECURSIVE every(_, _, _, _)
every(entries, i, context, resolvers) ==
  IF i > Len(entries) THEN "true"
  ELSE IF entries[i].c \notin resolvers.names THEN NotAFunction
  ELSE IF Resolve(entries[i].c, getValueFromPath(context, entries[i].p), entries[i].e)
       THEN every(entries, i + 1, context, resolvers)
       ELSE "false"

\* Statement.matches(action, resource, context, conditionResolvers) on the
\* Statement st: "true", "false" or the error thrown.  The condition map and
\* the resolver table are [present, ...] records; an absent context is
\* Undefined.
\* The condition clause, lines 241-252.
ConditionsHold(st, context, resolvers) ==
  IF resolvers.present /\ st.condition.present /\ Truthy(context)
  THEN every(st.condition.entries, 1, context, resolvers)
  ELSE "true"

\* a || b where the source has a && b.
AndThen_Or(a, b) == IF a = "true" THEN a ELSE b

\* a && b of two outcomes: b is not evaluated unless a is "true".
AndThen(a, b) == IF a # "true" THEN a ELSE b

matches(st, a, r, context, resolvers) ==
  AndThen(some(st.action, 1, a, context),
          AndThen(some(st.resource, 1, r, context),
                  ConditionsHold(st, context, resolvers)))

----------------------------------------------------------------------------
(* The Matcher as a caller sees it: new Matcher(a), then any number of     *)
(* match(c) calls on the object.                                           *)

\* Bounds of the inputs.
MaxLen == 3        \* length of a freely chosen pattern
MaxAltLen == 1     \* length of an alternative of a two-alternative pattern
MaxStrLen == 3     \* length of a freely chosen candidate

FreeChars == {"a", "/", "*", ".", "\\", " ", "{", "}", "("}
AltChars == {"a", "*", ".", "/"}
CandidateChars == {"a", "/", "."}

\* "{X,Y}" for alternatives X and Y free of braces and commas.
TwoAlternatives ==
  {<< "{" >> \o x \o << "," >> \o y \o << "}" >> :
     x \in Strs(AltChars, MaxAltLen), y \in Strs(AltChars, MaxAltLen)}

\* "{}" followed by a literal suffix.
LeadingEmptyBraces == {<< "{", "}" >> \o s : s \in Strs({"a", "b"}, MaxLen - 1)}

Patterns == Strs(FreeChars, MaxLen) \cup TwoAlternatives \cup LeadingEmptyBraces

\* The candidates tried on new Matcher(a): a itself, a + "x", and every short
\* string.
Candidates(a) == {a, Append(a, "x")} \cup Strs(CandidateChars, MaxStrLen)

\* The Matcher object the variables hold.
Self ==
  [pattern |-> pattern, empty |-> empty, set |-> set,
   hasSpecialCharacter |-> hasSpecialCharacter, thrown |-> FALSE]

Bool(b) == IF b THEN "true" ELSE "false"

NoShape == [pre |-> << >>, ps |-> << >>, mid |-> << >>, qs |-> << >>, post |-> << >>]

MatcherInit ==
  /\ arg = << >> /\ pattern = << >> /\ empty = FALSE /\ set = << >>
  /\ hasSpecialCharacter = FALSE /\ str = << >> /\ result = "none"
  /\ shape = NoShape

NoCondition == [present |-> FALSE, entries |-> << >>]
NoResolvers == [present |-> FALSE, names |-> {}]

StatementInit ==
  /\ stmt = [effect |-> Undefined, resource |-> << >>, action |-> << >>,
             condition |-> NoCondition]
  /\ req = [action |-> << >>, resource |-> << >>, context |-> Undefined,
            conditionResolvers |-> NoResolvers]

ContextInit == data = Undefined /\ path = << >> /\ value = Undefined

Init == pc = "new" /\ MatcherInit /\ StatementInit /\ ContextInit

\* The caller holds the Matcher m that new Matcher(a) built, or its throw.
Hold(a, m) ==
  /\ arg' = a
  /\ pattern' = m.pattern
  /\ empty' = m.empty
  /\ set' = m.set
  /\ hasSpecialCharacter' = m.hasSpecialCharacter
  /\ result' = IF m.thrown THEN TooLong ELSE "none"
  /\ pc' = IF m.thrown THEN "thrown" ELSE "matcher"

\* The constructor, lines 89-100, on the argument a.
Construct(a) == Hold(a, Matcher(a))

NewMatcher ==
  /\ pc = "new"
  /\ \E a \in Patterns : Construct(a)
  /\ UNCHANGED << str, shape, statementVars, contextVars >>

\* Matcher.match(c) on the object, for a candidate of C.  match reads the
\* object and changes nothing in it, so one call per object shows them all.
MatchOn(C) ==
  /\ pc = "matcher"
  /\ \E c \in C :
       /\ str' = c
       /\ result' = Bool(match(Self, c))
  /\ pc' = "matched"
  /\ UNCHANGED << arg, pattern, empty, set, hasSpecialCharacter, shape,
                  statementVars, contextVars >>

Match == MatchOn(Candidates(arg))

Next == NewMatcher \/ Match

Spec == Init /\ [][Next]_vars

----------------------------------------------------------------------------
(* C2: a wildcard never matches an empty segment *)

\* a = L + "/*" for a literal prefix L (no "*", brace or backslash).
IsSegmentWildcard(a) ==
  /\ Len(a) >= 2 /\ a[Len(a)] = "*" /\ a[Len(a) - 1] = "/"
  /\ \A i \in 1..(Len(a) - 2) : a[i] \notin {"*", "{", "}", "\\"}

\* C2: Matcher(L + "/*").match(L + "/") is false, and .match(L + "/" + s) is
\* true for every non-empty s that contains no "/".
C2_WildcardNeedsSegment ==
  (pc = "matched" /\ IsSegmentWildcard(arg)) =>
    LET dir == SubSeq(arg, 1, Len(arg) - 1)
    IN /\ str = dir => result = "false"
       /\ ( /\ Len(str) > Len(dir)
            /\ SubSeq(str, 1, Len(dir)) = dir
            /\ \A i \in (Len(dir) + 1)..Len(str) : str[i] # "/" )
          => result = "true"

----------------------------------------------------------------------------
(* C4: a pattern without "{" or "*" matches itself and nothing longer *)

NoBraceNoStar(a) == \A i \in 1..Len(a) : a[i] \notin {"{", "*"}

\* C4 as stated: for every P that contains neither "{" nor "*",
\* Matcher(P).match(P) is true and Matcher(P).match(P + "x") is false.
C4_LiteralMatchesItself ==
  (pc = "matched" /\ NoBraceNoStar(arg)) =>
    /\ str = arg => result = "true"
    /\ str = Append(arg, "x") => result = "false"

\* P has no white space at either end and no backslash before its last
\* character: what the constructor's trim and parse's unescaping leave alone.
Verbatim(a) ==
  /\ Trim(a) = a
  /\ \A i \in 1..(Len(a) - 1) : a[i] # "\\"

\* C4 amended: for every P that contains neither "{" nor "*", has no leading
\* or trailing white space and no backslash except as its last character,
\* Matcher(P).match(P) is true and Matcher(P).match(P + "x") is false.
C4_VerbatimLiteralMatchesItself ==
  (pc = "matched" /\ NoBraceNoStar(arg) /\ Verbatim(arg)) =>
    /\ str = arg => result = "true"
    /\ str = Append(arg, "x") => result = "false"

\* A literal pattern holding regular-expression characters was matched
\* against itself.
C4_Witness ==
  /\ pc = "matched" /\ NoBraceNoStar(arg) /\ Verbatim(arg)
  /\ arg = << ".", "(", "}" >> /\ str = arg /\ result = "true"

----------------------------------------------------------------------------
(* C5: a leading "{}" is literal text *)

\* C5: for every suffix S free of "{", "}", ",", "*" and backslash,
\* Matcher("{}" + S).match("{}" + S) is true.
C5_LeadingEmptyBracesLiteral ==
  ( /\ pc = "matched"
    /\ Len(arg) >= 2 /\ SubSeq(arg, 1, 2) = << "{", "}" >>
    /\ \A i \in 3..Len(arg) : arg[i] \notin {"{", "}", ",", "*", "\\"}
    /\ str = arg )
  => result = "true"

----------------------------------------------------------------------------
(* C8: in a wildcard alternative only "*" is special *)

\* s is p with each "*" replaced by a run of characters other than "/" and
\* every other character of p at its place.
RECURSIVE WildcardInstance(_, _)
WildcardInstance(p, s) ==
  IF p = << >> THEN s = << >>
  ELSE IF p[1] = "*"
       THEN \E k \in 0..Len(s) :
              /\ \A i \in 1..k : s[i] # "/"
              /\ WildcardInstance(Slice(p, 2), Slice(s, k + 1))
       ELSE /\ s # << >> /\ s[1] = p[1]
            /\ WildcardInstance(Slice(p, 2), Slice(s, 2))

\* C8: for every brace-free pattern P with at least one "*", whenever
\* Matcher(P).match(c) is true, c is P with each "*" replaced by a run of
\* characters other than "/" and every other character verbatim.
C8_OnlyStarIsSpecial ==
  ( /\ pc = "matched"
    /\ \A i \in 1..Len(arg) : arg[i] \notin {"{", "}"}
    /\ \E i \in 1..Len(arg) : arg[i] = "*"
    /\ result = "true" )
  => WildcardInstance(arg, str)

----------------------------------------------------------------------------
(* C9: the order of a pattern's alternatives does not matter *)

\* a = "{X,Y}" for X and Y free of braces and commas.
IsTwoAlternatives(a) ==
  /\ Len(a) >= 3 /\ a[1] = "{" /\ a[Len(a)] = "}"
  /\ Cardinality({i \in 1..Len(a) : a[i] = ","}) = 1
  /\ \A i \in 2..(Len(a) - 1) : a[i] \notin {"{", "}"}

\* "{Y,X}" for a = "{X,Y}"
Swapped(a) ==
  LET comma == IndexOf(a, ",", 1)
  IN << "{" >> \o SubSeq(a, comma + 1, Len(a) - 1) \o << "," >>
       \o SubSeq(a, 2, comma - 1) \o << "}" >>

\* C9: Matcher("{X,Y}").match(c) equals Matcher("{Y,X}").match(c).
C9_AlternativeOrderIrrelevant ==
  (pc = "matched" /\ IsTwoAlternatives(arg)) =>
    result = Bool(match(Matcher(Swapped(arg)), str))

----------------------------------------------------------------------------
(* C3: brace expansion is a cross product.                                 *)
(*                                                                         *)
(* The Matcher is built from pre + "{p1,...,pn}" + post (one group, qs     *)
(* empty) or pre + "{p1,...,pn}" + mid + "{q1,...,qm}" + post.             *)

MaxParts == 2      \* parts of one brace group

Affixes == {<< >>, << "a" >>}
PartChoices == {<< >>, << "a" >>, << "b" >>}
\* A part with a line terminator inside, for the one-group patterns.
LinePartChoices == PartChoices \cup {<< "a", "\n", "a" >>}

\* The non-empty lists of at most n parts.
RECURSIVE PartLists(_, _)
PartLists(P, n) ==
  IF n = 0 THEN {}
  ELSE {<< x >> : x \in P}
       \cup {<< x >> \o l : x \in P, l \in PartLists(P, n - 1)}

Shapes ==
  [pre : Affixes, ps : PartLists(LinePartChoices, MaxParts), mid : {<< >>},
   qs : {<< >>}, post : Affixes]
  \cup
  [pre : Affixes, ps : PartLists(PartChoices, MaxParts), mid : Affixes,
   qs : PartLists(PartChoices, MaxParts), post : Affixes]

Group(parts) == << "{" >> \o Join(parts, << "," >>) \o << "}" >>

\* The pattern of a shape.
BracePattern(sh) ==
  sh.pre \o Group(sh.ps)
         \o (IF sh.qs = << >> THEN << >> ELSE sh.mid \o Group(sh.qs)) \o sh.post

\* pre + pi + mid + qj + post for every i and j (pre + pi + post for one group).
CrossProduct(sh) ==
  IF sh.qs = << >>
  THEN {sh.pre \o sh.ps[i] \o sh.post : i \in 1..Len(sh.ps)}
  ELSE {sh.pre \o sh.ps[i] \o sh.mid \o sh.qs[j] \o sh.post :
          i \in 1..Len(sh.ps), j \in 1..Len(sh.qs)}

NewBraceMatcher ==
  /\ pc = "new"
  /\ \E sh \in Shapes : shape' = sh /\ Construct(BracePattern(sh))
  /\ UNCHANGED << str, statementVars, contextVars >>

\* The candidates: every string the claim expects to match, the pattern
\* itself and every short string.
MatchExpansion ==
  MatchOn(CrossProduct(shape) \cup {arg} \cup Strs({"a", "b", "\\"}, MaxStrLen))

NextExpand == NewBraceMatcher \/ MatchExpansion

SpecExpand == Init /\ [][NextExpand]_vars

\* The pieces are free of the characters the claim excludes and of
\* surrounding white space, the pattern has a comma, and no concatenation is
\* empty.
InScope(sh) ==
  /\ \A x \in {sh.pre, sh.mid, sh.post} \cup {sh.ps[i] : i \in 1..Len(sh.ps)}
                \cup {sh.qs[j] : j \in 1..Len(sh.qs)} :
       /\ Trim(x) = x
       /\ \A i \in 1..Len(x) : x[i] \notin {"{", "}", ",", "*", "$", "\\"}
  /\ Len(sh.ps) >= 2 \/ Len(sh.qs) >= 2
  /\ << >> \notin CrossProduct(sh)

Expandable(a) ==
  /\ ~(Len(a) >= 2 /\ SubSeq(a, 1, 2) = << "{", "}" >>)
  /\ \A i \in 1..Len(a) : a[i] \notin LineTerminators

----------------------------------------------------------------------------
(* getValueFromPath and applyContext as a caller sees them *)

MaxDepth == 3      \* nesting of a context
MaxKeys == 3       \* keys of a path

Keys == {<< "u" >>, << "r" >>}
Leaves == {StringValue(<< "a" >>), StringValue(<< "u" >>),
           ArrayValue(<< << "a" >>, << "b" >> >>)}

\* The leaves and the one-key objects nested at most d deep.
RECURSIVE Values(_)
Values(d) ==
  IF d = 0 THEN Leaves
  ELSE Values(d - 1)
       \cup {ObjectValue([k \in {key} |-> v]) : key \in Keys, v \in Values(d - 1)}

Contexts == {v \in Values(MaxDepth) : v.t = "object"}

\* The key lists of at most n keys.
RECURSIVE KeyLists(_)
KeyLists(n) ==
  IF n = 0 THEN {}
  ELSE {<< k >> : k \in Keys} \cup {<< k >> \o l : k \in Keys, l \in KeyLists(n - 1)}

Paths == {Join(l, << "." >>) : l \in KeyLists(MaxKeys)}

Templates ==
  {pre \o << "$", "{" >> \o p \o << "}" >> \o post :
     pre \in {<< >>, << "a", ":" >>, << " ", " " >>},
     post \in {<< >>, << " ", " ", "a", " " >>},
     p \in Paths}

GetValueFromPath ==
  /\ pc = "new"
  /\ \E d \in Contexts, p \in Paths :
       /\ data' = d /\ path' = p
       /\ value' = getValueFromPath(d, p)
  /\ pc' = "resolved"
  /\ UNCHANGED << matcherVars, statementVars >>

ApplyContext ==
  /\ pc = "new"
  /\ \E d \in Contexts \cup {Undefined}, s \in Templates :
       /\ data' = d /\ path' = s
       /\ value' = StringValue(applyContext(s, d))
  /\ pc' = "interpolated"
  /\ UNCHANGED << matcherVars, statementVars >>

NextContext == GetValueFromPath \/ ApplyContext

SpecContext == Init /\ [][NextContext]_vars

\* The value under the keys, walked left to right from v: undefined as soon
\* as a key is absent.
RECURSIVE Walk(_, _)
Walk(v, keys) ==
  IF keys = << >> THEN v
  ELSE IF v.t = "object" /\ keys[1] \in DOMAIN v.m
       THEN Walk(v.m[keys[1]], Slice(keys, 2))
       ELSE Undefined

\* An array is handed out as the string "{v1,v2,...}".
Rendered(v) ==
  IF v.t = "array" THEN StringValue(<< "{" >> \o Join(v.a, << "," >>) \o << "}" >>)
  ELSE v

\* C6: for a path of any number of keys n >= 1, getValueFromPath returns the
\* value found under the last key when every key on the way is present, and
\* undefined as soon as some key is absent.
C6_PathIsWalked ==
  pc = "resolved" => value = Rendered(Walk(data, Split(path, ".")))

----------------------------------------------------------------------------
(* Statement.matches as a caller sees it: new Statement(config), then      *)
(* matches(action, resource, context, conditionResolvers).                 *)

TooLongPattern == [i \in 1..(PatternLengthLimit + 1) |-> "a"]
SpacedPattern == << "a", " ", " ", "b" >>
PlaceholderPattern == << "$", "{", "u", ".", "r", "}" >>

PaddedPattern == << " ", " ", "a", " ", "b", " " >>

ActionChoices ==
  {<< "a" >>, SpacedPattern, PaddedPattern, PlaceholderPattern, TooLongPattern}
ResourceChoices == {<< "*" >>, TooLongPattern}

MaxPatterns == 2   \* patterns of an action or resource list

\* The non-empty lists of at most n patterns.
RECURSIVE PatternLists(_, _)
PatternLists(P, n) ==
  IF n = 0 THEN {}
  ELSE {<< x >> : x \in P} \cup {<< x >> \o l : x \in P, l \in PatternLists(P, n - 1)}

\* A config field: a single string, or an array of strings.
Field(P) ==
  {StringValue(x) : x \in P} \cup {ArrayValue(l) : l \in PatternLists(P, MaxPatterns)}

Entry(c, p, e) == [c |-> c, p |-> p, e |-> e]
UserRole == << "u", ".", "r" >>
ConditionChoices ==
  {NoCondition,
   [present |-> TRUE, entries |-> << Entry("equals", UserRole, << "a" >>) >>],
   [present |-> TRUE, entries |-> << Entry("equals", UserRole, << "a" >>),
                                     Entry("notEquals", UserRole, << "b" >>) >>]}

Configs ==
  [effect : {Undefined}, resource : Field(ResourceChoices),
   action : Field(ActionChoices), condition : ConditionChoices]

User(role) ==
  ObjectValue([k \in {<< "u" >>} |->
                 ObjectValue([k2 \in {<< "r" >>} |-> StringValue(role)])])

Requests ==
  [action : {<< "a" >>, << "a", " ", "b" >>, SpacedPattern},
   resource : {<< "a" >>, << "/" >>},
   context : {Undefined, User(<< "a" >>), User(<< "b" >>)},
   conditionResolvers : {NoResolvers,
                         [present |-> TRUE, names |-> {"equals"}],
                         [present |-> TRUE, names |-> {"equals", "notEquals"}]}]

NewStatement ==
  /\ pc = "new"
  /\ \E config \in Configs : stmt' = Statement(config)
  /\ pc' = "statement"
  /\ UNCHANGED << matcherVars, req, contextVars >>

\* One call of matches.  The call reads the Statement and changes nothing in
\* it, so one call per Statement shows them all.
Matches ==
  /\ pc = "statement"
  /\ \E q \in Requests :
       /\ req' = q
       /\ result' = matches(stmt, q.action, q.resource, q.context, q.conditionResolvers)
  /\ pc' = IF result' \in {"true", "false"} THEN "returned" ELSE "thrown"
  /\ UNCHANGED << arg, pattern, empty, set, hasSpecialCharacter, str, shape,
                  stmt, contextVars >>

NextStatement == NewStatement \/ Matches

SpecStatement == Init /\ [][NextStatement]_vars

----------------------------------------------------------------------------
(* C1: matches is the conjunction of its three clauses *)

\* The Matcher of a pattern of the statement, interpolated against the
\* context of the request.
Interpolated(p) == Matcher(applyContext(p, req.context))

\* Some pattern of the list, interpolated and compiled, matches s.
SomeMatches(patterns, s) ==
  \E i \in 1..Len(patterns) :
    ~Interpolated(patterns[i]).thrown /\ match(Interpolated(patterns[i]), s)

\* The condition clause: true when the resolvers, the condition map or the
\* context is absent, and otherwise true iff every resolver returns true on
\* the value at its path and the expected value.
ConditionClause ==
  \/ ~req.conditionResolvers.present
  \/ ~stmt.condition.present
  \/ req.context = Undefined
  \/ \A k \in 1..Len(stmt.condition.entries) :
       LET entry == stmt.condition.entries[k]
       IN /\ entry.c \in req.conditionResolvers.names
          /\ Resolve(entry.c, getValueFromPath(req.context, entry.p), entry.e)

\* C1: whenever matches returns, it returns true exactly when some action
\* pattern matches the action, some resource pattern matches the resource
\* and the condition clause holds; with no conditionResolvers supplied the
\* conditions play no part.
C1_MatchesIsConjunction ==
  pc = "returned" =>
    /\ result = "true" <=>
         /\ SomeMatches(stmt.action, req.action)
         /\ SomeMatches(stmt.resource, req.resource)
         /\ ConditionClause
    /\ ~req.conditionResolvers.present =>
         (result = "true" <=>
            /\ SomeMatches(stmt.action, req.action)
            /\ SomeMatches(stmt.resource, req.resource))

\* matches returned true after two resolvers were asked.
C1_Witness ==
  /\ pc = "returned" /\ result = "true"
  /\ req.conditionResolvers.present /\ req.context # Undefined
  /\ Len(stmt.condition.entries) = 2
  /\ Len(stmt.action) = 2 /\ ~match(Interpolated(stmt.action[1]), req.action)

----------------------------------------------------------------------------
(* C7: the over-length rejection *)

\* The pattern, interpolated, expands to an alternative longer than the
\* limit.
OverLength(p) ==
  \E alt \in {braceExpand(Trim(applyContext(p, req.context)))[k] :
                k \in 1..Len(braceExpand(Trim(applyContext(p, req.context))))} :
    Len(alt) > PatternLengthLimit

\* C7 as stated: if any action pattern or any resource pattern expands to an
\* over-length alternative, matches raises the size error and never returns.
C7_OverLengthAlwaysRaises ==
  ( /\ pc \in {"returned", "thrown"}
    /\ \/ \E i \in 1..Len(stmt.action) : OverLength(stmt.action[i])
       \/ \E i \in 1..Len(stmt.resource) : OverLength(stmt.resource[i]) )
  => result = TooLong

\* An over-length pattern of the list is compiled: no pattern before it is
\* over-length or matches s.
Compiled_OverLength(patterns, s) ==
  \E i \in 1..Len(patterns) :
    /\ OverLength(patterns[i])
    /\ \A j \in 1..(i - 1) :
         ~OverLength(patterns[j]) /\ ~match(Interpolated(patterns[j]), s)

\* A pattern of the list matches s and no pattern before it is over-length.
MatchComesFirst(patterns, s) ==
  \E i \in 1..Len(patterns) :
    /\ ~OverLength(patterns[i]) /\ match(Interpolated(patterns[i]), s)
    /\ \A j \in 1..(i - 1) : ~OverLength(patterns[j])

\* C7 amended: matches raises the size error, and returns nothing, exactly
\* when an over-length pattern is compiled: an action pattern that no
\* matching action pattern precedes, or a resource pattern that no matching
\* resource pattern precedes when some action pattern matched.  An
\* over-length pattern that is never compiled raises nothing.
C7_OverLengthCompiledRaises ==
  pc \in {"returned", "thrown"} =>
    (result = TooLong <=>
       \/ Compiled_OverLength(stmt.action, req.action)
       \/ /\ MatchComesFirst(stmt.action, req.action)
          /\ Compiled_OverLength(stmt.resource, req.resource))

\* The size error came from the second resource pattern.
C7_Witness ==
  /\ pc = "thrown" /\ result = TooLong
  /\ Len(stmt.resource) = 2 /\ stmt.resource[2] = TooLongPattern
  /\ stmt.resource[1] # TooLongPattern
  /\ \A i \in 1..Len(stmt.action) : stmt.action[i] # TooLongPattern

----------------------------------------------------------------------------
(* C10: a context and a pattern without placeholder *)

\* No "${...}" is in the pattern.
NoPlaceholder(p) ==
  ~\E i \in 1..(Len(p) - 1) :
     p[i] = "$" /\ p[i + 1] = "{" /\ IndexOf(p, "}", i + 2) # 0

\* The statement has no condition map and none of its patterns a placeholder.
PlaceholderFree ==
  /\ ~stmt.condition.present
  /\ \A i \in 1..Len(stmt.action) : NoPlaceholder(stmt.action[i])
  /\ \A i \in 1..Len(stmt.resource) : NoPlaceholder(stmt.resource[i])

\* What the same call gives with no context.
WithoutContext ==
  matches(stmt, req.action, req.resource, Undefined, req.conditionResolvers)

\* C10 as stated: for a Statement with no condition map whose patterns hold
\* no placeholder, matches gives the same result for every context and for
\* an absent context.
C10_ContextIrrelevant ==
  (pc \in {"returned", "thrown"} /\ PlaceholderFree) => result = WithoutContext

\* The pattern, trimmed, has no two spaces in a row.
NoSpaceRun(p) ==
  \A i \in 1..(Len(Trim(p)) - 1) : ~(Trim(p)[i] = " " /\ Trim(p)[i + 1] = " ")

\* C10 amended: the same, for patterns that, trimmed, hold no run of two or
\* more spaces.
C10_ContextIrrelevantWithoutSpaceRuns ==
  ( /\ pc \in {"returned", "thrown"} /\ PlaceholderFree
    /\ \A i \in 1..Len(stmt.action) : NoSpaceRun(stmt.action[i])
    /\ \A i \in 1..Len(stmt.resource) : NoSpaceRun(stmt.resource[i]) )
  => result = WithoutContext

\* A padded pattern matched under a context.
C10_Witness ==
  /\ pc = "returned" /\ result = "true" /\ PlaceholderFree
  /\ req.context # Undefined
  /\ stmt.action = << PaddedPattern >>

====
